---- MODULE Spec2Model ----
(***************************************************************************)
(* FileFilter (src/src/lib.rs): a lazy, stack-based walker over a          *)
(* directory tree that yields the non-directory paths accepted by every    *)
(* registered predicate.                                                   *)
(*                                                                         *)
(* The file system is the environment.  It is chosen in Init and does not  *)
(* change afterwards.  Paths are the numbers 0..MaxNode, 0 being the root  *)
(* given to new(); the entries of directory d are 2d+1 and 2d+2.           *)
(***************************************************************************)
EXTENDS Naturals, Integers, Sequences, FiniteSets, TLC

\* ------------------------------------------------------------------ bounds
\* The largest path of the universe of paths.
MaxNode == 4
\* The largest number of predicates one walker registers.
MaxPreds == 2
\* The largest number of file-system operations that are set to fail.
MaxFail == 1
\* How many calls of next() are made after the first end-of-sequence.
MaxDone == 2

VARIABLES
    fs,      \* the file system
    walker,  \* walker id -> the FileFilter struct (plus the log of its I/O)
    rets,    \* walker id -> every value next() has returned, in order
    late     \* walker id -> add_filter was called after the first next()

vars == <<fs, walker, rets, late>>

\* ------------------------------------------------------------ Option, Result
\* Option<T>: None is the empty sequence, Some(x) the one-element sequence.
None == <<>>
Some(x) == <<x>>

\* Result<PathBuf>: Ok(path), or Err of the operation that failed on a path.
Ok(path) == [ok |-> TRUE, op |-> "path", path |-> path]
Err(op, path) == [ok |-> FALSE, op |-> op, path |-> path]

\* ------------------------------------------------------------- file system
Paths == 0..MaxNode
Root == 0
ParentOf(p) == (p - 1) \div 2
ChildrenOf(d) == {c \in Paths : c # Root /\ ParentOf(c) = d}

RECURSIVE Ancestors(_)
\* The proper ancestors of a path, the root included.
Ancestors(p) ==
    IF p = Root THEN {} ELSE {ParentOf(p)} \cup Ancestors(ParentOf(p))

Beneath(p, d) == d \in Ancestors(p)

\* The file name of a path: its extension and whether it starts with
\* "prefix_" (the two properties the predicates of the tests read).
Extension(path) == IF path % 2 = 1 THEN "txt" ELSE "log"
StartsWithPrefix(path) == path % 3 # 1

\* The predicates of the test module.
is_txt_file(path) == Extension(path) = "txt"
has_prefix(path) == StartsWithPrefix(path)

Predicates == {"is_txt_file", "has_prefix"}

\* Calling a boxed predicate f(&path).
Call(f, path) ==
    IF f = "is_txt_file" THEN is_txt_file(path) ELSE has_prefix(path)

RECURSIVE UpTo(_, _)
\* The subsets of S with at most k elements.
UpTo(S, k) ==
    IF k = 0 THEN {{}}
    ELSE LET smaller == UpTo(S, k - 1)
         IN  smaller \cup {A \cup {x} : A \in smaller, x \in S}

\* A tree: every path that exists, the root excepted, lies in a directory.
KindMaps ==
    {k \in [Paths -> {"dir", "file", "none"}] :
        \A p \in Paths \ {Root} : k[p] # "none" => k[ParentOf(p)] = "dir"}

\* The operations that can be set to fail on a tree: reading the metadata of
\* an existing path, opening a directory, reading an entry from a listing.
FaultSites(k) ==
    {<<"metadata", p>> : p \in {q \in Paths : k[q] # "none"}}
    \cup {<<"read_dir", p>> : p \in {q \in Paths : k[q] = "dir"}}
    \cup {<<"next", p>> : p \in {q \in Paths \ {Root} : k[q] # "none"}}

HasReadFault(F) == \E x \in F : x[1] = "next"

\* std::fs::metadata(path): fails for a path that does not exist.
MetadataOk(path) == fs.kind[path] # "none" /\ <<"metadata", path>> \notin fs.faults

\* Path::is_dir: false when the metadata cannot be read.
is_dir(path) == MetadataOk(path) /\ fs.kind[path] = "dir"

\* std::fs::read_dir(path) succeeds.
ReadDirOk(path) == fs.kind[path] = "dir" /\ <<"read_dir", path>> \notin fs.faults

\* The paths of the entries of directory d, in the order the listing has.
Names(d) ==
    LET order == IF fs.rev THEN <<2 * d + 2, 2 * d + 1>>
                           ELSE <<2 * d + 1, 2 * d + 2>>
        Exists(c) == c \in Paths /\ fs.kind[c] # "none"
    IN  SelectSeq(order, Exists)

\* One item of a ReadDir: io::Result<DirEntry>.
RawEntry(p) ==
    IF <<"next", p>> \in fs.faults THEN Err("next", p) ELSE Ok(p)

RECURSIVE CutAfterError(_)
\* A listing whose primitive ends the stream after an error.
CutAfterError(s) ==
    IF s = <<>> THEN <<>>
    ELSE IF ~Head(s).ok THEN <<Head(s)>>
    ELSE <<Head(s)>> \o CutAfterError(Tail(s))

\* What the ReadDir of directory d yields, in order.
Entries(d) ==
    LET names == Names(d)
        raw   == [i \in 1..Len(names) |-> RawEntry(names[i])]
    IN  IF fs.errEnds THEN CutAfterError(raw) ELSE raw

\* fs::ReadDir: the directory and the entries not yet read.
ReadDir(d) == [dir |-> d, rest |-> Entries(d)]

\* A record of one file-system operation of a walker.
Op(op, path, ok) == [op |-> op, path |-> path, ok |-> ok]

\* ----------------------------------------------------------------- FileFilter
\* FileFilter::new
new(root) ==
    [predicates |-> <<>>, start |-> Some(root), stack |-> <<>>, io |-> <<>>]

\* FileFilter::add_filter
add_filter(self, predicate) ==
    [self EXCEPT !.predicates = Append(@, predicate)]

RECURSIVE any(_, _)
\* iter().any in place of iter().all.
any(predicates, path) ==
    IF predicates = <<>> THEN FALSE
    ELSE IF Call(Head(predicates), path) THEN TRUE
    ELSE any(Tail(predicates), path)

\* Only the first registered predicate is asked.
all_first_only(predicates, path) ==
    predicates = <<>> \/ Call(Head(predicates), path)

RECURSIVE all(_, _)
\* self.predicates.iter().all(|f| f(&path)): stops at the first false.
all(predicates, path) ==
    IF predicates = <<>> THEN TRUE
    ELSE IF ~Call(Head(predicates), path) THEN FALSE
    ELSE all(Tail(predicates), path)

\* push that puts the new listing under the listings already on the stack,
\* so that the listing being read stays on top.
push_at_bottom(self, entry) ==
    IF ReadDirOk(entry)
    THEN [self |-> [self EXCEPT !.stack = <<ReadDir(entry)>> \o @,
                                !.io = Append(@, Op("read_dir", entry, TRUE))],
          res  |-> None]
    ELSE [self |-> [self EXCEPT !.io = Append(@, Op("read_dir", entry, FALSE))],
          res  |-> Some(Err("read_dir", entry))]

\* push that puts a listing on the stack before it looks at the result of
\* read_dir: a failed open leaves an empty listing behind.
push_keeping_failed(self, entry) ==
    IF ReadDirOk(entry)
    THEN [self |-> [self EXCEPT !.stack = Append(@, ReadDir(entry)),
                                !.io = Append(@, Op("read_dir", entry, TRUE))],
          res  |-> None]
    ELSE [self |-> [self EXCEPT !.stack = Append(@, [dir |-> entry, rest |-> <<>>]),
                                !.io = Append(@, Op("read_dir", entry, FALSE))],
          res  |-> Some(Err("read_dir", entry))]

\* FileFilter::push: [self, res], res being None for Ok(()) and Some(e) for Err(e).
push(self, entry) ==
    IF ReadDirOk(entry)
    THEN [self |-> [self EXCEPT !.stack = Append(@, ReadDir(entry)),
                                !.io = Append(@, Op("read_dir", entry, TRUE))],
          res  |-> None]
    ELSE [self |-> [self EXCEPT !.io = Append(@, Op("read_dir", entry, FALSE))],
          res  |-> Some(Err("read_dir", entry))]

\* process_entry with the predicates also asked about directories: a
\* directory that fails one is skipped instead of pushed.
process_entry_pruning(self, path) ==
    LET checked == [self EXCEPT !.io = Append(@, Op("metadata", path, MetadataOk(path)))]
    IN  IF is_dir(path) /\ all(checked.predicates, path)
        THEN LET pushed == push(checked, path)
             IN  IF pushed.res # None
                 THEN [self |-> pushed.self, res |-> Some(pushed.res[1])]
                 ELSE [self |-> pushed.self, res |-> None]
        ELSE IF ~is_dir(path) /\ all(checked.predicates, path)
             THEN [self |-> checked, res |-> Some(Ok(path))]
             ELSE [self |-> checked, res |-> None]

\* process_entry that gives up the walk when a directory cannot be opened:
\* the error is returned and the open listings are dropped.
process_entry_abandoning(self, path) ==
    LET checked == [self EXCEPT !.io = Append(@, Op("metadata", path, MetadataOk(path)))]
    IN  IF is_dir(path)
        THEN LET pushed == push(checked, path)
             IN  IF pushed.res # None
                 THEN [self |-> [pushed.self EXCEPT !.stack = <<>>],
                       res  |-> Some(pushed.res[1])]
                 ELSE [self |-> pushed.self, res |-> None]
        ELSE IF all(checked.predicates, path)
             THEN [self |-> checked, res |-> Some(Ok(path))]
             ELSE [self |-> checked, res |-> None]

\* FileFilter::process_entry: [self, res], res being Option<Result<PathBuf>>.
process_entry(self, path) ==
    LET checked == [self EXCEPT !.io = Append(@, Op("metadata", path, MetadataOk(path)))]
    IN  IF is_dir(path)
        THEN LET pushed == push(checked, path)
             IN  IF pushed.res # None
                 THEN [self |-> pushed.self, res |-> Some(pushed.res[1])]
                 ELSE [self |-> pushed.self, res |-> None]
        ELSE IF all(checked.predicates, path)
             THEN [self |-> checked, res |-> Some(Ok(path))]
             ELSE [self |-> checked, res |-> None]

RECURSIVE next_loop_break(_)
\* The loop leaving with None as soon as the top listing is exhausted,
\* instead of going on with the listing below it.
next_loop_break(self) ==
    IF self.stack = <<>> THEN [self |-> self, res |-> None]
    ELSE LET top == Len(self.stack)
             rd  == self.stack[top]
         IN  IF rd.rest = <<>>
             THEN [self |-> [self EXCEPT
                               !.stack = SubSeq(@, 1, top - 1),
                               !.io = Append(@, Op("end", rd.dir, TRUE))],
                   res  |-> None]
             ELSE LET item == Head(rd.rest)
                      read == [self EXCEPT
                                  !.stack[top].rest = Tail(@),
                                  !.io = Append(@, Op("next", item.path, item.ok))]
                  IN  IF item.ok
                      THEN LET done == process_entry(read, item.path)
                           IN  IF done.res # None THEN done
                               ELSE next_loop_break(done.self)
                      ELSE [self |-> read, res |-> Some(item)]

RECURSIVE next_loop_dropping(_)
\* The loop of next() that gives up a listing whose read failed: it pops the
\* listing before it returns the error.
next_loop_dropping(filter) ==
    LET body(self) ==
            IF self.stack = <<>> THEN [self |-> self, res |-> None]
            ELSE LET top == Len(self.stack)
                     rd  == self.stack[top]
                 IN  IF rd.rest = <<>>
                     THEN next_loop_dropping([self EXCEPT
                              !.stack = SubSeq(@, 1, top - 1),
                              !.io = Append(@, Op("end", rd.dir, TRUE))])
                     ELSE LET item == Head(rd.rest)
                              read == [self EXCEPT
                                          !.stack[top].rest = Tail(@),
                                          !.io = Append(@, Op("next", item.path, item.ok))]
                          IN  IF item.ok
                              THEN LET done == process_entry(read, item.path)
                                   IN  IF done.res # None THEN done
                                       ELSE next_loop_dropping(done.self)
                              ELSE [self |-> [read EXCEPT !.stack = SubSeq(@, 1, top - 1)],
                                    res  |-> Some(item)]
    IN  CHOOSE r \in {body(self) : self \in {filter}} : TRUE

RECURSIVE next_loop(_)
\* The while loop of next(): [self, res].  The walker is evaluated once, as
\* the one element of a set, before the loop body reads it.
next_loop(filter) ==
    LET body(self) ==
            IF self.stack = <<>> THEN [self |-> self, res |-> None]
            ELSE LET top == Len(self.stack)
                     rd  == self.stack[top]
                 IN  IF rd.rest = <<>>
                     THEN next_loop([self EXCEPT
                              !.stack = SubSeq(@, 1, top - 1),
                              !.io = Append(@, Op("end", rd.dir, TRUE))])
                     ELSE LET item == Head(rd.rest)
                              read == [self EXCEPT
                                          !.stack[top].rest = Tail(@),
                                          !.io = Append(@, Op("next", item.path, item.ok))]
                          IN  IF item.ok
                              THEN LET done == process_entry(read, item.path)
                                   IN  IF done.res # None THEN done
                                       ELSE next_loop(done.self)
                              ELSE [self |-> read, res |-> Some(item)]
    IN  CHOOSE r \in {body(self) : self \in {filter}} : TRUE

\* next() reading the start path without taking it out of the option.
next_without_take(self) ==
    IF self.start # None
    THEN LET done == process_entry(self, self.start[1])
         IN  IF done.res # None THEN done ELSE next_loop(done.self)
    ELSE next_loop(self)

\* next() reading one entry ahead: once it has its item it also takes the
\* next entry off the top listing.
next_prefetching(self) ==
    LET found ==
            IF self.start # None
            THEN LET taken == [self EXCEPT !.start = None]
                     done  == process_entry(taken, self.start[1])
                 IN  IF done.res # None THEN done ELSE next_loop(done.self)
            ELSE next_loop(self)
        top == Len(found.self.stack)
    IN  IF found.res # None /\ top > 0 /\ found.self.stack[top].rest # <<>>
        THEN LET ahead == Head(found.self.stack[top].rest)
             IN  [found EXCEPT
                     !.self.stack[top].rest = Tail(@),
                     !.self.io = Append(@, Op("next", ahead.path, ahead.ok))]
        ELSE found

\* Iterator::next for FileFilter: [self, res].
next(self) ==
    IF self.start # None
    THEN LET taken == [self EXCEPT !.start = None]
             done  == process_entry(taken, self.start[1])
         IN  IF done.res # None THEN done ELSE next_loop(done.self)
    ELSE next_loop(self)

\* ------------------------------------------------------------------ actions
Walkers == DOMAIN walker

\* No walker is pulled more often than this.  A walk yields at most one item
\* for each path, so one that ends is never stopped by this bound.
MaxCalls == (MaxNode + 1) + (MaxDone + 1) + 1

NumNone(s) == Cardinality({i \in 1..Len(s) : s[i] = None})

\* A caller registers one more predicate on walker w.
AddFilterOn(w) ==
    /\ Len(walker[w].predicates) < MaxPreds
    /\ \E predicate \in Predicates :
          walker' = [walker EXCEPT ![w] = add_filter(@, predicate)]
    /\ late' = [late EXCEPT ![w] = (rets[w] # <<>>)]
    /\ UNCHANGED <<fs, rets>>

\* A caller pulls the next item of walker w.
CallNextOn(w) ==
    /\ NumNone(rets[w]) <= MaxDone
    /\ Len(rets[w]) < MaxCalls
    /\ \E r \in {next(walker[w])} :
           /\ walker' = [walker EXCEPT ![w] = r.self]
           /\ rets' = [rets EXCEPT ![w] = Append(@, r.res)]
    /\ UNCHANGED <<fs, late>>

\* Any tree over the paths, with at most MaxFail operations set to fail.
InitFs ==
    \E k \in KindMaps :
    \E F \in UpTo(FaultSites(k), MaxFail) :
    \E r \in BOOLEAN :
    \E e \in (IF HasReadFault(F) THEN BOOLEAN ELSE {FALSE}) :
        fs = [kind |-> k, faults |-> F, rev |-> r, errEnds |-> e]

\* Every walker of W is FileFilter::new(root), not yet pulled.
InitWalkers(W) ==
    /\ walker = [w \in W |-> new(Root)]
    /\ rets = [w \in W |-> <<>>]
    /\ late = [w \in W |-> FALSE]

\* One walker on a tree.
Init == InitFs /\ InitWalkers({1})

AddFilter == \E w \in Walkers : AddFilterOn(w)

CallNext == \E w \in Walkers : CallNextOn(w)

Next == AddFilter \/ CallNext

Spec == Init /\ [][Next]_vars

\* One walker on a tree none of whose operations is set to fail.
InitNoFault == Init /\ fs.faults = {}

\* The caller keeps pulling the walker.
FairSpec == InitNoFault /\ [][Next]_vars /\ WF_vars(CallNext)

\* Every sequence of at most MaxPreds predicates.
PredSeqs == UNION {[1..n -> Predicates] : n \in 0..MaxPreds}

Range(s) == {s[i] : i \in 1..Len(s)}

RECURSIVE with_filters(_, _)
\* FileFilter::new(root).add_filter(f1).add_filter(f2)...: the chained calls.
with_filters(self, filters) ==
    IF filters = <<>> THEN self
    ELSE with_filters(add_filter(self, Head(filters)), Tail(filters))

\* Two walkers on the same tree, built with the same set of predicates,
\* registered in any two orders.
InitPair ==
    /\ InitFs
    /\ \E s1 \in PredSeqs : \E s2 \in PredSeqs :
          /\ Range(s1) = Range(s2)
          /\ walker = [w \in {1, 2} |->
                          with_filters(new(Root), IF w = 1 THEN s1 ELSE s2)]
    /\ rets = [w \in {1, 2} |-> <<>>]
    /\ late = [w \in {1, 2} |-> FALSE]

\* The caller pulls the next item of both walkers.
CallNextBoth ==
    /\ \A w \in Walkers : NumNone(rets[w]) <= MaxDone /\ Len(rets[w]) < MaxCalls
    /\ \E r \in {[w \in Walkers |-> next(walker[w])]} :
           /\ walker' = [w \in Walkers |-> r[w].self]
           /\ rets' = [w \in Walkers |-> Append(rets[w], r[w].res)]
    /\ UNCHANGED <<fs, late>>

SpecPair == InitPair /\ [][CallNextBoth]_vars

\* ------------------------------------------------------------------ claims
\* How often value x occurs in sequence s.
Count(s, x) == Cardinality({i \in 1..Len(s) : s[i] = x})

\* next() of walker w has returned end-of-sequence.
Exhausted(w) == NumNone(rets[w]) > 0

\* The paths next() of walker w has returned as Ok.
Returned(w) ==
    {p \in Paths : \E i \in 1..Len(rets[w]) : rets[w][i] = Some(Ok(p))}

\* Path p satisfies every predicate walker w holds.
Satisfies(w, p) ==
    \A i \in 1..Len(walker[w].predicates) : Call(walker[w].predicates[i], p)

\* No file-system operation of any walk can fail.
NoFailure == fs.faults = {} /\ fs.kind[Root] # "none"

\* The value the last call of next() on walker w returned.
LastRet(w) == rets[w][Len(rets[w])]

\* C1 (completeness): on a tree rooted at a directory where no file-system
\* operation fails, once next() has returned end-of-sequence the paths it
\* returned as Ok are exactly the files under the root that satisfy all the
\* predicates the walker was built with, each returned once.
Completeness ==
    \A w \in Walkers :
        (NoFailure /\ fs.kind[Root] = "dir" /\ ~late[w] /\ Exhausted(w)) =>
            \A p \in Paths :
                Count(rets[w], Some(Ok(p))) =
                    IF fs.kind[p] = "file" /\ Satisfies(w, p) THEN 1 ELSE 0

\* A finished walk of an error-free tree with one predicate that returned
\* files of two directories and rejected a file.
CompletenessWitness ==
    \E w \in Walkers :
        /\ NoFailure /\ fs.kind[Root] = "dir" /\ ~late[w] /\ Exhausted(w)
        /\ walker[w].predicates # <<>>
        /\ \E p \in Returned(w), q \in Returned(w) : ParentOf(p) # ParentOf(q)
        /\ \E p \in Paths : fs.kind[p] = "file" /\ p \notin Returned(w)

\* C2 (predicate conjunction): whenever next() returns Ok(path), with or
\* without file-system errors, the path satisfies every predicate registered
\* on the walker.
PredicateConjunction ==
    [][\A w \in Walkers :
          (rets'[w] # rets[w] /\ LastRet(w)' # None /\ LastRet(w)'[1].ok) =>
              \A i \in 1..Len(walker'[w].predicates) :
                  Call(walker'[w].predicates[i], LastRet(w)'[1].path)]_vars

\* next() has just returned a path under two different predicates, after an
\* error item, and has rejected a file it visited.
PredicateConjunctionWitness ==
    \E w \in Walkers :
        /\ rets[w] # <<>> /\ LastRet(w) # None /\ LastRet(w)[1].ok
        /\ Range(walker[w].predicates) = Predicates
        /\ \E i \in 1..Len(rets[w]) : rets[w][i] # None /\ ~rets[w][i][1].ok
        /\ \E i \in 1..Len(walker[w].io) :
              /\ walker[w].io[i].op = "metadata"
              /\ fs.kind[walker[w].io[i].path] = "file"
              /\ walker[w].io[i].path \notin Returned(w)

\* C3 (directories are never yielded): no path next() returns as Ok is a
\* directory.
DirectoriesNeverYielded ==
    \A w \in Walkers : \A p \in Returned(w) : fs.kind[p] # "dir"

\* The positions of rets[w] that hold an error item.
ErrorItems(w) ==
    {i \in 1..Len(rets[w]) : rets[w][i] # None /\ ~rets[w][i][1].ok}

\* The positions of the I/O log of walker w that hold a failed operation.
FailedOps(w) == {i \in 1..Len(walker[w].io) : ~walker[w].io[i].ok}

\* C4 (termination): on a tree where no file-system operation fails, a
\* caller that keeps calling next() eventually gets end-of-sequence.
Termination == \A w \in {1} : NoFailure ~> Exhausted(w)

\* An error-free walk that ended after it went two directories deep and
\* returned at least three items.
TerminationWitness ==
    /\ NoFailure /\ Exhausted(1)
    /\ Cardinality(Returned(1)) >= 3
    /\ \E i \in 1..Len(walker[1].io) :
          walker[1].io[i].op = "read_dir" /\ walker[1].io[i].path # Root

\* C5 (nonexistent root): on a root that does not exist the first next()
\* returns an error item, the second returns end-of-sequence, and the stack
\* never holds a listing.
NonexistentRoot ==
    \A w \in Walkers :
        fs.kind[Root] = "none" =>
            /\ Len(rets[w]) >= 1 => (rets[w][1] # None /\ ~rets[w][1][1].ok)
            /\ Len(rets[w]) >= 2 => rets[w][2] = None
            /\ walker[w].stack = <<>>

\* C6 (no error is dropped): the error items of the sequence are, one for
\* one and in order, the failed file-system operations of the walk (checking
\* an entry, opening a directory, reading an entry), and every other item is
\* a path that passed every predicate.
NoErrorDropped ==
    \A w \in Walkers :
        /\ Cardinality(ErrorItems(w)) = Cardinality(FailedOps(w))
        /\ \A i \in ErrorItems(w) :
              \E j \in FailedOps(w) :
                  /\ walker[w].io[j].op = rets[w][i][1].op
                  /\ walker[w].io[j].path = rets[w][i][1].path
        /\ ~late[w] => \A p \in Returned(w) : Satisfies(w, p)

\* The directories walker w failed to open.
OpenFailed(w) ==
    {walker[w].io[i].path :
        i \in {k \in 1..Len(walker[w].io) :
                  walker[w].io[k].op = "read_dir" /\ ~walker[w].io[k].ok}}

\* The listing of the directory of p yields the entry of p.
Listed(p) ==
    /\ p # Root
    /\ \E i \in 1..Len(Entries(ParentOf(p))) : Entries(ParentOf(p))[i] = Ok(p)

\* Path p is an entry all of whose ancestors are found and open successfully.
Discoverable(p) ==
    /\ Listed(p)
    /\ \A a \in Ancestors(p) :
          is_dir(a) /\ ReadDirOk(a) /\ (a # Root => Listed(a))

\* C7 (resilience to a failed directory open): when opening a directory D
\* has failed, no path beneath D is ever returned, and when the walk has
\* ended every file outside D that satisfies all predicates and whose
\* ancestors all open successfully has been returned exactly once.
ResilientToOpenFailure ==
    \A w \in Walkers : \A D \in OpenFailed(w) :
        /\ \A p \in Returned(w) : ~Beneath(p, D)
        /\ (Exhausted(w) /\ ~late[w]) =>
              \A p \in Paths :
                  (/\ fs.kind[p] = "file"
                   /\ ~Beneath(p, D)
                   /\ Discoverable(p)
                   /\ Satisfies(w, p)) => Count(rets[w], Some(Ok(p))) = 1

\* A finished walk in which opening D failed, D holds a file that satisfies
\* the predicates, and a file outside D was returned after the error.
ResilientToOpenFailureWitness ==
    \E w \in Walkers : \E D \in OpenFailed(w) :
        /\ Exhausted(w) /\ ~late[w] /\ walker[w].predicates # <<>>
        /\ \E p \in ChildrenOf(D) : fs.kind[p] = "file" /\ Satisfies(w, p)
        /\ \E i \in 1..Len(rets[w]) : \E j \in 1..Len(rets[w]) :
              /\ i < j
              /\ rets[w][i] = Some(Err("read_dir", D))
              /\ rets[w][j] # None /\ rets[w][j][1].ok

\* C8 (filter order independence): two walkers on the same tree whose
\* predicates are the same set, registered in any orders, return the same
\* sequence of items.
FilterOrderIndependence ==
    \A v \in Walkers : \A w \in Walkers :
        Range(walker[v].predicates) = Range(walker[w].predicates) =>
            rets[v] = rets[w]

\* Two finished walks with the two predicates in opposite orders, which
\* returned a path and rejected a file of each predicate.
FilterOrderIndependenceWitness ==
    /\ Walkers = {1, 2}
    /\ Len(walker[1].predicates) = 2
    /\ walker[2].predicates = <<walker[1].predicates[2], walker[1].predicates[1]>>
    /\ walker[1].predicates # walker[2].predicates
    /\ Exhausted(1) /\ Exhausted(2)
    /\ Returned(1) # {}
    /\ \A f \in Predicates :
          \E p \in Paths : fs.kind[p] = "file" /\ ~Call(f, p) /\ p \notin Returned(1)

\* C9 (end-of-sequence is permanent): a call of next() that follows one that
\* returned None returns None and performs no file-system operation.
EndIsPermanent ==
    [][\A w \in Walkers :
          (rets[w] # <<>> /\ LastRet(w) = None /\ rets'[w] # rets[w]) =>
              /\ LastRet(w)' = None
              /\ walker'[w].io = walker[w].io]_vars

\* next() was called twice more after a walk that returned items had ended.
EndIsPermanentWitness ==
    \E w \in Walkers :
        /\ Len(rets[w]) >= 4
        /\ rets[w][1] # None
        /\ \A i \in (Len(rets[w]) - 2)..Len(rets[w]) : rets[w][i] = None

\* C10 (resource release): once next() has returned None the stack of open
\* listings is empty and the start seed is absent.
ResourceRelease ==
    \A w \in Walkers :
        Exhausted(w) => walker[w].stack = <<>> /\ walker[w].start = None

\* A walk has ended that had opened a directory inside the root directory.
ResourceReleaseWitness ==
    \E w \in Walkers :
        /\ Exhausted(w)
        /\ \E i \in 1..Len(walker[w].io) : \E j \in 1..Len(walker[w].io) :
              /\ walker[w].io[i] = Op("read_dir", Root, TRUE)
              /\ walker[w].io[j].op = "read_dir" /\ walker[w].io[j].ok
              /\ walker[w].io[j].path # Root

\* The file-system operations the step's call of next() on walker w made.
CallOps(w) ==
    SubSeq(walker'[w].io, Len(walker[w].io) + 1, Len(walker'[w].io))

\* Operation op ends a call of next() with an item, under these predicates:
\* a failed open, a failed read, or the check of a path that is taken for a
\* file and that every predicate accepts.
IsOutput(predicates, op) ==
    \/ ~op.ok /\ op.op \in {"read_dir", "next"}
    \/ /\ op.op = "metadata"
       /\ ~is_dir(op.path)
       /\ \A i \in 1..Len(predicates) : Call(predicates[i], op.path)

\* The item a call returns for the operation that ends it.
ItemOf(op) ==
    IF op.op = "metadata" THEN Ok(op.path) ELSE Err(op.op, op.path)

\* C11 (laziness): new() and add_filter() perform no file-system operation,
\* and a call of next() that returns an item stops at the first operation
\* that yields one: that operation is the last the call made (no entry is
\* read and no directory opened after it) and no earlier one of the call
\* yielded an item.
Laziness ==
    [][\A w \in Walkers :
          /\ rets[w] = <<>> => walker[w].io = <<>>
          /\ rets'[w] = rets[w] => walker'[w].io = walker[w].io
          /\ (rets'[w] # rets[w] /\ LastRet(w)' # None) =>
                LET ops == CallOps(w)
                    n   == Len(ops)
                IN  /\ n >= 1
                    /\ IsOutput(walker'[w].predicates, ops[n])
                    /\ LastRet(w)' = Some(ItemOf(ops[n]))
                    /\ \A i \in 1..(n - 1) :
                          ~IsOutput(walker'[w].predicates, ops[i])]_vars

\* next() has returned an item while the top listing still holds entries and
\* a directory of the tree is not yet opened.
LazinessWitness ==
    \E w \in Walkers :
        /\ rets[w] # <<>> /\ LastRet(w) # None
        /\ walker[w].stack # <<>>
        /\ walker[w].stack[Len(walker[w].stack)].rest # <<>>
        /\ \E d \in Paths \ {Root} :
              /\ fs.kind[d] = "dir"
              /\ \A i \in 1..Len(walker[w].io) : walker[w].io[i].path # d

\* How many operations of the sequence ops are successful opens, and how
\* many are reads that found a listing exhausted.
Pushes(ops) ==
    Cardinality({i \in 1..Len(ops) : ops[i].op = "read_dir" /\ ops[i].ok})
Pops(ops) == Cardinality({i \in 1..Len(ops) : ops[i].op = "end"})

\* C12 (a failed directory open leaves the stack unchanged): process_entry
\* on a directory whose read_dir fails returns that failure and the stack it
\* was given; and a call of next() that returns the failure to open D has
\* changed the stack only by its successful opens and its pops of exhausted
\* listings: no listing of D is on the stack, and the listing D was read from
\* is still its top.
FailedOpenKeepsStack ==
    [][\A w \in Walkers :
          /\ \A p \in Paths :
                (is_dir(p) /\ ~ReadDirOk(p)) =>
                    LET r == process_entry(walker[w], p)
                    IN  /\ r.res = Some(Err("read_dir", p))
                        /\ r.self.stack = walker[w].stack
          /\ \A D \in Paths :
                (rets'[w] # rets[w] /\ LastRet(w)' = Some(Err("read_dir", D))) =>
                    LET ops   == CallOps(w)
                        old   == walker[w].stack
                        stack == walker'[w].stack
                    IN  /\ Len(stack) = Len(old) + Pushes(ops) - Pops(ops)
                        /\ \A i \in 1..Len(stack) : stack[i].dir # D
                        /\ D = Root => stack = old
                        /\ D # Root =>
                              /\ stack # <<>>
                              /\ stack[Len(stack)].dir = ParentOf(D)
                        /\ Len(ops) = 3 =>
                              stack = [old EXCEPT ![Len(old)].rest = Tail(@)]]_vars

\* next() has just returned the failure to open a directory that is an entry
\* of a listing, and that listing still holds entries.
FailedOpenKeepsStackWitness ==
    \E w \in Walkers : \E D \in Paths \ {Root} :
        /\ rets[w] # <<>> /\ LastRet(w) = Some(Err("read_dir", D))
        /\ walker[w].stack # <<>>
        /\ walker[w].stack[Len(walker[w].stack)].rest # <<>>

\* C13 (a listing read error keeps the listing): when the entry the top
\* listing yields next is an error, the loop of next() returns it at once and
\* only that entry has left the listing; the call of next() that returns the
\* failure to read entry p ends with that read and leaves the listing of p's
\* directory on top of the stack; and the first thing the following call does
\* is read that same listing again (its next entry, or its end).
ReadErrorKeepsListing ==
    [][\A w \in Walkers :
          /\ LET self == walker[w]
                 top  == Len(self.stack)
             IN  (top > 0 /\ self.stack[top].rest # <<>>
                          /\ ~Head(self.stack[top].rest).ok) =>
                    LET r == next_loop(self)
                    IN  /\ r.res = Some(Head(self.stack[top].rest))
                        /\ r.self.stack = [self.stack EXCEPT ![top].rest = Tail(@)]
          /\ \A p \in Paths :
                /\ (rets'[w] # rets[w] /\ LastRet(w)' = Some(Err("next", p))) =>
                      LET ops   == CallOps(w)
                          stack == walker'[w].stack
                      IN  /\ ops # <<>> /\ ops[Len(ops)] = Op("next", p, FALSE)
                          /\ stack # <<>>
                          /\ stack[Len(stack)].dir = ParentOf(p)
                          /\ Len(stack) = Len(walker[w].stack) + Pushes(ops) - Pops(ops)
                /\ (rets[w] # <<>> /\ LastRet(w) = Some(Err("next", p))
                                   /\ rets'[w] # rets[w]) =>
                      LET ops == CallOps(w)
                      IN  /\ ops # <<>>
                          /\ \/ ops[1].op = "next" /\ ParentOf(ops[1].path) = ParentOf(p)
                             \/ ops[1].op = "end" /\ ops[1].path = ParentOf(p)]_vars

\* A call of next() returned the failure to read an entry, and the call
\* after it returned a later entry of the same directory.
ReadErrorKeepsListingWitness ==
    \E w \in Walkers : \E i \in 1..(Len(rets[w]) - 1) : \E p, q \in Paths \ {Root} :
        /\ rets[w][i] = Some(Err("next", p))
        /\ rets[w][i + 1] = Some(Ok(q))
        /\ ParentOf(q) = ParentOf(p)

\* How many times walker w has processed path p (process_entry asks for the
\* metadata of its path once).
Processed(w, p) ==
    Cardinality({i \in 1..Len(walker[w].io) :
                    walker[w].io[i].op = "metadata" /\ walker[w].io[i].path = p})

\* C14 (one-shot start seed): while the start path is present the stack is
\* empty and next() has not been called (nothing returned, no file-system
\* operation done); once next() has been called the start path is absent,
\* and the root has been processed exactly once, however many calls
\* followed.
OneShotStart ==
    \A w \in Walkers :
        /\ walker[w].start \in {None, Some(Root)}
        /\ walker[w].start # None =>
              /\ walker[w].stack = <<>>
              /\ rets[w] = <<>>
              /\ walker[w].io = <<>>
        /\ rets[w] # <<>> => walker[w].start = None
        /\ Processed(w, Root) = IF rets[w] = <<>> THEN 0 ELSE 1

\* next() has been called several times, into the walk of a root directory
\* and past its end.
OneShotStartWitness ==
    \E w \in Walkers :
        /\ Len(rets[w]) >= 3
        /\ walker[w].start = None
        /\ Op("read_dir", Root, TRUE) \in Range(walker[w].io)
        /\ Exhausted(w)
        /\ Processed(w, Root) = 1

\* The directories walker w has opened successfully, and those whose listing
\* it has read to the end.
Opened(w) ==
    {walker[w].io[i].path :
        i \in {k \in 1..Len(walker[w].io) :
                  walker[w].io[k].op = "read_dir" /\ walker[w].io[k].ok}}
Ended(w) ==
    {walker[w].io[i].path :
        i \in {k \in 1..Len(walker[w].io) : walker[w].io[k].op = "end"}}

\* The directories whose listings are on the stack of walker w.
OnStack(w) == {walker[w].stack[i].dir : i \in 1..Len(walker[w].stack)}

\* Sequence s is what is left of sequence t after some first elements.
IsSuffix(s, t) ==
    Len(s) <= Len(t) /\ s = SubSeq(t, Len(t) - Len(s) + 1, Len(t))

\* C15 as stated (stack content invariant): between calls of next(), every
\* listing on the stack belongs to a directory that has been opened and
\* still has at least one entry not yet read.
StackHoldsUndrained ==
    \A w \in Walkers : \A i \in 1..Len(walker[w].stack) :
        /\ walker[w].stack[i].dir \in Opened(w)
        /\ walker[w].stack[i].rest # <<>>

\* C15 (stack content invariant), amended: between calls of next(), the
\* listings on the stack are exactly those of the directories opened
\* successfully whose end has not yet been read, each holding the entries
\* of its directory not yet read; a listing with no entry left stays on the
\* stack until a later read finds it exhausted.
StackHoldsUnfinished ==
    \A w \in Walkers :
        /\ OnStack(w) = Opened(w) \ Ended(w)
        /\ \A i \in 1..Len(walker[w].stack) :
              IsSuffix(walker[w].stack[i].rest, Entries(walker[w].stack[i].dir))

\* Between two calls of next(), the top listing is of a directory that has
\* entries, all of them read, and next() has just returned one of them.
StackHoldsUnfinishedWitness ==
    \E w \in Walkers :
        /\ walker[w].stack # <<>>
        /\ LET rd == walker[w].stack[Len(walker[w].stack)]
           IN  /\ rd.rest = <<>>
               /\ Entries(rd.dir) # <<>>
               /\ rets[w] # <<>>
               /\ \E p \in Paths \ {Root} :
                     LastRet(w) = Some(Ok(p)) /\ ParentOf(p) = rd.dir

\* Entry a and the paths in the subtree of a.
Subtree(a) == {p \in Paths : p = a \/ Beneath(p, a)}

\* Entries a and b are of one directory, whose listing provides a before b.
ListedBefore(a, b) ==
    /\ a # Root /\ b # Root /\ ParentOf(a) = ParentOf(b)
    /\ LET names == Names(ParentOf(a))
       IN  \E i, j \in 1..Len(names) : i < j /\ names[i] = a /\ names[j] = b

\* C16 (depth-first order): when the listing of a directory the walker has
\* opened provides entry a before entry b, every item next() returns for a
\* or for a path in the subtree of a is returned before any item for b or
\* for a path in the subtree of b; and so is every file-system operation
\* done: entries are read and processed in listing order, each subtree to
\* its end before the next entry of the parent is read.
DepthFirstOrder ==
    \A w \in Walkers : \A d \in Opened(w) : \A names \in {Names(d)} :
        \A m, n \in 1..Len(names) :
            m < n =>
                \A A \in {Subtree(names[m])} : \A B \in {Subtree(names[n])} :
                    /\ \A i \in 1..Len(rets[w]) :
                          (rets[w][i] # None /\ rets[w][i][1].path \in A) =>
                              \A j \in 1..Len(rets[w]) :
                                  (rets[w][j] # None /\ rets[w][j][1].path \in B) => i < j
                    /\ \A i \in 1..Len(walker[w].io) :
                          walker[w].io[i].path \in A =>
                              \A j \in 1..Len(walker[w].io) :
                                  walker[w].io[j].path \in B => i < j

\* A file inside subdirectory D has been returned, and after it a file that
\* follows D in the listing of D's parent.
DepthFirstOrderWitness ==
    \E w \in Walkers : \E D, p, q \in Paths :
        /\ ListedBefore(D, q) /\ fs.kind[D] = "dir" /\ Beneath(p, D)
        /\ \E i, j \in 1..Len(rets[w]) :
              i < j /\ rets[w][i] = Some(Ok(p)) /\ rets[w][j] = Some(Ok(q))

\* The depth of the tree: the most directories on one chain from the root.
TreeDepth ==
    LET chains == {Cardinality(Ancestors(d)) + 1 : d \in {p \in Paths : fs.kind[p] = "dir"}}
    IN  IF chains = {} THEN 0 ELSE CHOOSE n \in chains : \A m \in chains : m <= n

\* C17 (the stack is an ancestor chain): a stack that is not empty holds,
\* from bottom to top, the listing of the root and then listings each of a
\* direct child of the directory below it; its length is at most the depth
\* of the tree; and its top is the listing being read: the entry the walker
\* handled last is an entry of the top directory.
StackIsAncestorChain ==
    \A w \in Walkers :
        LET stack == walker[w].stack
            io    == walker[w].io
        IN  /\ Len(stack) <= TreeDepth
            /\ stack # <<>> =>
                  /\ stack[1].dir = Root
                  /\ \A i \in 1..(Len(stack) - 1) :
                        /\ stack[i + 1].dir # Root
                        /\ ParentOf(stack[i + 1].dir) = stack[i].dir
                  /\ io # <<>>
                  /\ io[Len(io)].path # Root
                  /\ ParentOf(io[Len(io)].path) = stack[Len(stack)].dir

\* Between two calls of next(), the stack holds the listing of the root and
\* that of a subdirectory, whose entry next() has just returned.
StackIsAncestorChainWitness ==
    \E w \in Walkers : \E p \in Paths \ {Root} :
        /\ Len(walker[w].stack) = 2
        /\ rets[w] # <<>> /\ LastRet(w) = Some(Ok(p))
        /\ ParentOf(p) = walker[w].stack[2].dir
        /\ walker[w].stack[2].dir # Root

\* C18 (non-directory root): for a walker built on a root that exists and
\* is not a directory, the stack is empty in every state, and, all filters
\* having been added before the first call, the first call of next()
\* returns Ok(root) when the root satisfies every predicate and
\* end-of-sequence otherwise, and every later call returns end-of-sequence.
NonDirectoryRoot ==
    \A w \in Walkers :
        fs.kind[Root] = "file" =>
            /\ walker[w].stack = <<>>
            /\ (~late[w] /\ rets[w] # <<>>) =>
                  /\ rets[w][1] = IF Satisfies(w, Root) THEN Some(Ok(Root)) ELSE None
                  /\ \A i \in 2..Len(rets[w]) : rets[w][i] = None

\* A walker with a predicate, on a root that is a file satisfying it, has
\* returned the root and then end-of-sequence.
NonDirectoryRootWitness ==
    \E w \in Walkers :
        /\ fs.kind[Root] = "file" /\ ~late[w]
        /\ walker[w].predicates # <<>>
        /\ Len(rets[w]) >= 2
        /\ rets[w][1] = Some(Ok(Root)) /\ rets[w][2] = None

\* The paths on which walker w has evaluated its predicates: those it
\* processed and did not find to be a directory (none for a walker that
\* holds no predicate).
Evaluated(w) ==
    IF walker[w].predicates = <<>> THEN {}
    ELSE {p \in Paths : Processed(w, p) > 0 /\ ~is_dir(p)}

\* C19 (predicates never prune directories): for a walker whose filters
\* were all added before the first call, a predicate is evaluated only on
\* paths that are not directories; every directory the walker has processed
\* it has tried to open, and has pushed if the open succeeded, whatever the
\* predicates say of its path; so once the walk of a tree without failures
\* has ended, every file that satisfies the predicates has been returned,
\* also one with an ancestor directory that fails a predicate.
PredicatesNeverPrune ==
    \A w \in Walkers :
        ~late[w] =>
            /\ \A p \in Evaluated(w) : fs.kind[p] # "dir"
            /\ \A d \in Paths :
                  (fs.kind[d] = "dir" /\ Processed(w, d) > 0) =>
                      Op("read_dir", d, ReadDirOk(d)) \in Range(walker[w].io)
            /\ (NoFailure /\ Exhausted(w)) =>
                  \A f \in Paths :
                      (fs.kind[f] = "file" /\ Satisfies(w, f)) => f \in Returned(w)

====
